---- MODULE Spec2Model ----
(***************************************************************************)
(* Model of the Aladin.co.kr metadata source plugin.                       *)
(*                                                                         *)
(*   src/__init__.py : Aladin_co_kr.create_query, identify, the two        *)
(*                     search-result parsers                               *)
(*   src/worker.py   : Worker (thread): run, get_details, parse_details    *)
(*                                                                         *)
(* One behaviour is one call of identify by the host, together with the    *)
(* worker threads it starts, the host's abort event and the result queue.  *)
(* Network answers and page contents are inputs chosen with \E.            *)
(***************************************************************************)
EXTENDS Integers, Sequences, FiniteSets, TLC

VARIABLES
    pc,            \* position of the identify call (orchestrator thread)
    calls,         \* the invocations of identify so far: <<[title, authors, identifiers]>>
    query,         \* local "query" of the running invocation
    matches,       \* local "matches" of the running invocation
    retval,        \* what identify returned
    abort,         \* the host's abort event
    searches,      \* number of search requests sent (br.open_novisit(query))
    w,             \* the Worker threads, in candidate order
    k,             \* loop index of the start loop and of the poll loop
    a_worker_is_alive, \* local flag of the poll loop
    result_queue,  \* the shared result channel
    isbn_cache,    \* plugin cache isbn -> aladin id, as a set of pairs
    cover_cache,   \* plugin cache aladin id -> cover url, as a set of pairs
    dc_pc,         \* position of the download_cover call
    dc_args,       \* its arguments: title, authors, identifiers, and whether the
                   \* abort event it was handed was set at the call
    cached_url,    \* its local "cached_url"
    results,       \* its local "results": the drained records, sorted
    downloads,     \* number of cover downloads requested (br.open_novisit(cached_url))
    cover_queue,   \* the result channel download_cover was handed
    fn,            \* a single function under study: its name and arguments
    ret            \* what it returned

unitVars == <<fn, ret>>

coverVars == <<dc_pc, dc_args, cached_url, results, downloads, cover_queue>>

identifyVars == <<pc, calls, query, matches, retval, abort, searches, w, k,
                  a_worker_is_alive, result_queue, isbn_cache, cover_cache>>

vars == <<identifyVars, coverVars, unitVars>>

orchVars == <<pc, calls, query, matches, retval, searches, k, a_worker_is_alive>>

----------------------------------------------------------------------------
(* Bounds *)

MaxDownloads == 2      \* largest configured max_results
MaxBlocks == 2         \* result blocks on a search page
MaxFaults == 1         \* optional fields, over all workers, that come out absent or failing

----------------------------------------------------------------------------
(* Values *)

None == "None"

ValidIsbn == "9788939205109"
BadIsbn == "97889"
Isbns == {ValidIsbn, BadIsbn}

AladinIds == {"8932008485"}

Titles == {None, "T"}
AuthorLists == {<<>>, <<"a">>}       \* None and [] are both falsy and are one value here

Keys == {"isbn", "aladin.co.kr"}

\* identifiers: a dict, i.e. a function on a subset of Keys
IdentifierDicts ==
    UNION { [ks -> Isbns \cup AladinIds] : ks \in SUBSET Keys }

WellTyped(ids) ==
    /\ ("isbn" \in DOMAIN ids => ids["isbn"] \in Isbns)
    /\ ("aladin.co.kr" \in DOMAIN ids => ids["aladin.co.kr"] \in AladinIds)

NoIdentifiers == [x \in {} |-> ""]

\* dict.get(key, None)
Get(d, key) == IF key \in DOMAIN d THEN d[key] ELSE None

\* Python truthiness of a string-or-None and of a dict or list
Truthy(s) == s # None /\ s # ""
NonEmptyDict(d) == DOMAIN d # {}
NonEmptyList(s) == Len(s) > 0

\* calibre's ISBN validator: the ISBN when it is valid, else None
check_isbn(x) == IF x = ValidIsbn THEN x ELSE None

IsbnUrl(isbn) == [kind |-> "ISBN", val |-> isbn]
ItemIdUrl(id) == [kind |-> "ItemId", val |-> id]
NoUrl == [kind |-> "none", val |-> ""]

\* Text is a sequence of one-character strings; a title or a name of the
\* model is one character long, so <<x>> is its text.
\* The tokenizers of the host: no token for an absent or empty title / author
\* list; get_author_tokens looks at the first author only.
get_title_tokens(title) == IF Truthy(title) THEN {<<title>>} ELSE {}
get_author_tokens(authors) == IF NonEmptyList(authors) THEN {<<authors[1]>>} ELSE {}

----------------------------------------------------------------------------
(* Query builder *)

create_query_NeverNone(title, authors, identifiers) ==
    LET isbn == check_isbn(Get(identifiers, "isbn")) IN
    IF isbn # None THEN [kind |-> "isbn_search", key |-> {isbn}]
    ELSE [kind |-> "word_search",
          key |-> get_title_tokens(title) \cup get_author_tokens(authors)]

create_query(title, authors, identifiers) ==
    LET isbn == check_isbn(Get(identifiers, "isbn")) IN
    IF isbn # None THEN [kind |-> "isbn_search", key |-> {isbn}]
    ELSE IF Truthy(title) \/ NonEmptyList(authors)
         THEN [kind |-> "word_search",
               key |-> get_title_tokens(title) \cup get_author_tokens(authors)]
         ELSE [kind |-> "None", key |-> {}]

NoQuery == [kind |-> "", key |-> {}]

----------------------------------------------------------------------------
(* Search-results parsers *)

\* a result block of the search page: the text of its title link, the names
\* of its contributor links, the href of the title link, its format label
BlockTitles == {<<>>, <<"T">>, <<"X">>}
BlockAuthors == {<<"a">>, <<"z">>}
BlockUrls == {NoUrl, ItemIdUrl("8932008485")}
BlockFormats == {"[book]", "[ebook]"}     \* the label, in lower case
Blocks == [title : BlockTitles, authors : BlockAuthors, href : BlockUrls,
           format : BlockFormats]

PagesOf(blocks) == UNION { [1..n -> blocks] : n \in 0..MaxBlocks }

SearchPages == PagesOf(Blocks)

\* calibre.utils.icu.lower
LowerChar(c) ==
    IF c = "T" THEN "t" ELSE IF c = "X" THEN "x" ELSE IF c = "A" THEN "a"
    ELSE IF c = "B" THEN "b" ELSE c

lower(text) == [i \in 1..Len(text) |-> LowerChar(text[i])]

\* Python's  token in text
Contains(text, token) ==
    \E i \in 0..(Len(text) - Len(token)) : SubSeq(text, i + 1, i + Len(token)) = token

\* ' '.join(names)
RECURSIVE join(_)
join(names) ==
    IF Len(names) = 0 THEN <<>>
    ELSE IF Len(names) = 1 THEN <<names[1]>>
    ELSE <<names[1], " ">> \o join(Tail(names))

ismatch_CaseSensitive(title_tokens, author_tokens, _title, _authors) ==
    /\ title_tokens = {} \/ \E t \in title_tokens : Contains(_title, t)
    /\ author_tokens = {} \/ \E a \in author_tokens : Contains(join(_authors), a)

ismatch(title_tokens, author_tokens, _title, _authors) ==
    LET match == title_tokens = {}
                 \/ \E t \in title_tokens : Contains(lower(_title), lower(t))
        amatch == author_tokens = {}
                  \/ \E a \in author_tokens : Contains(lower(join(_authors)), lower(a))
    IN match /\ amatch

\* title.rpartition('(')[0] when the title holds a '('
StripSeries(title) ==
    IF \E i \in 1..Len(title) : title[i] = "("
    THEN LET last == CHOOSE i \in 1..Len(title) :
                        title[i] = "(" /\ \A j \in (i + 1)..Len(title) : title[j] # "("
         IN SubSeq(title, 1, last - 1)
    ELSE title

MapKey_TitleOnly(num, title) == title

\* the key "[%d] %s" % (num, title)
MapKey(num, title) == <<num, title>>

\* title_url_map[key] = url on an OrderedDict: a new key goes last, a known
\* key keeps its place and takes the new url
SetItem(map, key, url) ==
    IF \E i \in 1..Len(map) : map[i].key = key
    THEN [i \in 1..Len(map) |-> IF map[i].key = key THEN [key |-> key, url |-> url]
                                ELSE map[i]]
    ELSE Append(map, [key |-> key, url |-> url])

\* the test that ends both loops
Capped(n, max) == n >= max

\* the loop over the result blocks: stops once the map holds max entries
RECURSIVE CollectUrls(_, _, _, _, _)
CollectUrls(blocks, i, map, num, max) ==
    IF i > Len(blocks) THEN map
    ELSE LET b == blocks[i] IN
         IF b.accept /\ b.href # NoUrl
         THEN LET map2 == SetItem(map, MapKey(num, StripSeries(b.title)), b.href) IN
              IF Capped(Len(map2), max) THEN map2
              ELSE CollectUrls(blocks, i + 1, map2, num + 1, max)
         ELSE CollectUrls(blocks, i + 1, map, num, max)

\* the flattening loop: appends until matches holds max entries
RECURSIVE Flatten(_, _, _, _)
Flatten(map, i, ms, max) ==
    IF i > Len(map) THEN ms
    ELSE LET ms2 == Append(ms, map[i].url) IN
         IF Capped(Len(ms2), max) THEN ms2 ELSE Flatten(map, i + 1, ms2, max)

\* the deny-lists the two parsers define (the labels the model has)
UNSUPPORTED_FORMATS == {"[ebook]"}

\* the title link of the ISBN variant is an a.bo3 whose href holds
\* "wproduct.aspx?ISBN="; a block without it has no title
_parse_search_isbn_results(root, ms, max) ==
    LET marked == [i \in 1..Len(root) |->
                     [accept |-> root[i].title # <<>> /\ root[i].href.kind = "ISBN",
                      title |-> root[i].title,
                      href |-> root[i].href]]
    IN IF Len(root) = 0 THEN ms
       ELSE Flatten(CollectUrls(marked, 1, <<>>, 1, max), 1, ms, max)

_parse_search_results(orig_title, orig_authors, root, ms, max) ==
    LET tt == get_title_tokens(orig_title)
        at == get_author_tokens(orig_authors)
        marked == [i \in 1..Len(root) |->
                     [accept |-> root[i].title # <<>>
                                 /\ ismatch(tt, at, StripSeries(root[i].title),
                                            root[i].authors),
                      title |-> root[i].title,
                      href |-> root[i].href]]
    IN IF Len(root) = 0 THEN ms
       ELSE Flatten(CollectUrls(marked, 1, <<>>, 1, max), 1, ms, max)

----------------------------------------------------------------------------
(* Worker threads *)

OptionalFields == {"isbn", "rating", "comments", "cover", "tags", "publisher", "language"}
Outcomes == {"ok", "exc"}     \* extracted / the extractor raised

NoOut == [x \in {} |-> "ok"]

\* the response of the probe of the cover url: whether the request went
\* through, whether it has a Content-Length header, and the length
NoResponse == [opened |-> FALSE, has_length |-> FALSE, length |-> -1]
ProbeFailed == [opened |-> FALSE, has_length |-> FALSE, length |-> 0]
ProbeResponses ==
    {ProbeFailed, [opened |-> TRUE, has_length |-> FALSE, length |-> 0]}
    \cup [opened : {TRUE}, has_length : {TRUE}, length : {1000, 1001}]

\* Worker.__init__
Worker(url, relevance) ==
    [pc |-> "created", url |-> url, relevance |-> relevance,
     resp |-> "none", exit |-> "none",
     title |-> None, authors |-> <<>>, aladin_id |-> None,
     out |-> NoOut, isbn |-> None, og_image |-> "unread", info |-> NoResponse,
     cover_url |-> None, uncaught |-> FALSE]

NoWorkers == <<>>

Alive(wr) == wr.pc \notin {"created", "done"}

\* number of optional fields that did not come out, over all workers
RECURSIVE FaultCount(_)
FaultCount(ws) ==
    IF Len(ws) = 0 THEN 0
    ELSE Cardinality({f \in DOMAIN ws[1].out : ws[1].out[f] # "ok"}) + FaultCount(Tail(ws))

WithinFaults(ws) == FaultCount(ws) <= MaxFaults

Put(f, key, val) == [x \in DOMAIN f \cup {key} |-> IF x = key THEN val ELSE f[x]]

\* the worker ends without a record
Stop(wr, reason) == [wr EXCEPT !.pc = "done", !.exit = reason]

FetchResults == {"404", "timeout", "error", "page"}
PageKinds == {"unparsable", "generic", "title_error", "error_block", "details"}

\* what the site answered to the detail request
Response(fetched, kind) == IF fetched # "page" THEN fetched ELSE kind

get_details_NoErrorBlockTest(resp) ==
    resp \in {"404", "timeout", "error", "unparsable", "generic", "title_error"}

\* get_details: TRUE when it returns (or raises) before parse_details
get_details(resp) ==
    \/ resp \in {"404", "timeout", "error"}     \* lines 67-80
    \/ resp = "unparsable"                      \* lines 89-94
    \/ resp \in {"generic", "title_error"}      \* lines 96-112
    \/ resp = "error_block"                     \* lines 114-119

\* get_details raises on the error block: tostring() is handed a list
Raises(resp) == resp = "error_block"

\* run(): the bare except logs whatever get_details raises, and the thread ends
run(wr, resp) == [Stop(wr, "stopped") EXCEPT !.uncaught = Raises(resp) /\ FALSE]

\* parse_aladin_id: from the URL, else from the og:url meta of the page
parse_aladin_id(url, og) ==
    IF url.kind = "ItemId" THEN url.val
    ELSE IF og = "ok" THEN "8932008485" ELSE None

TitleResults == {"none", "empty", "exc", "ok"}
AuthorResults == {"none", "empty", "exc", "ok"}
OgResults == {"ok", "exc"}

\* parse_title_series and parse_authors as parse_details sees them
TitleOf(r) == IF r = "ok" THEN "Title" ELSE IF r = "empty" THEN "" ELSE None
AuthorsOf(r) == IF r = "ok" THEN <<"a">> ELSE <<>>

Resolved_TitleOnly(title, authors, aladin_id) == Truthy(title)

\* the gate of parse_details
Resolved(title, authors, aladin_id) ==
    Truthy(title) /\ NonEmptyList(authors) /\ Truthy(aladin_id)

Guarded_Unguarded(wr, field, o) ==
    IF o = "exc"
    THEN [wr EXCEPT !.out = Put(@, field, o), !.pc = "done", !.exit = "stopped"]
    ELSE [wr EXCEPT !.out = Put(@, field, o)]

\* one guarded extraction step of parse_details: try / except / log
Guarded(wr, field, o) == [wr EXCEPT !.out = Put(@, field, o)]

SetIsbn(wr, o) == [Guarded(wr, "isbn", o) EXCEPT !.isbn = IF o = "ok" THEN ValidIsbn ELSE None]

Metadata_RankZero(wr) ==
    [title |-> wr.title, authors |-> wr.authors, aladin_id |-> wr.aladin_id,
     isbn |-> wr.isbn, has_cover |-> wr.cover_url # None,
     fields |-> {f \in DOMAIN wr.out : wr.out[f] = "ok"},
     source_relevance |-> 0]

\* the Metadata object handed to the queue
Metadata(wr) ==
    [title |-> wr.title, authors |-> wr.authors, aladin_id |-> wr.aladin_id,
     isbn |-> wr.isbn, has_cover |-> wr.cover_url # None,
     fields |-> {f \in DOMAIN wr.out : wr.out[f] = "ok"},
     source_relevance |-> wr.relevance]

\* fetch of the detail page, get_details, and parse_details up to the first
\* description request
WFetch(i) ==
    /\ i \in 1..Len(w)
    /\ w[i].pc = "fetch"
    /\ \E fetched \in FetchResults, kind \in PageKinds :
         LET resp == Response(fetched, kind)
             wr == [w[i] EXCEPT !.resp = resp]
         IN
         \/ /\ get_details(resp)
            /\ w' = [w EXCEPT ![i] = run(wr, resp)]
         \/ /\ ~get_details(resp)
            /\ \E og \in OgResults, tr \in TitleResults, ar \in AuthorResults :
                 LET aid == parse_aladin_id(w[i].url, og)
                     t == TitleOf(tr)
                     a == AuthorsOf(ar)
                 IN IF ~Resolved(t, a, aid)
                    THEN w' = [w EXCEPT ![i] = Stop(wr, "missing")]
                    ELSE \E oi \in Outcomes, orat \in Outcomes :
                           LET w1 == [wr EXCEPT !.title = t, !.authors = a,
                                                  !.aladin_id = aid, !.pc = "desc1"]
                               w2 == Guarded(SetIsbn(w1, oi), "rating", orat)
                           IN /\ w' = [w EXCEPT ![i] = w2]
                              /\ WithinFaults(w')
    /\ UNCHANGED <<orchVars, abort, result_queue, isbn_cache, cover_cache, unitVars, coverVars>>

\* the plugin caches are dicts: a key holds its latest value
cache_put(cache, key, val) == {p \in cache : p[1] # key} \cup {<<key, val>>}

Finish_NoCaches(i, wr) ==
    \E ot \in Outcomes, op \in Outcomes, ol \in Outcomes :
       LET w3 == [Guarded(Guarded(Guarded(wr, "tags", ot), "publisher", op), "language", ol)
                    EXCEPT !.pc = "put"]
       IN /\ w' = [w EXCEPT ![i] = w3]
          /\ WithinFaults(w')
          /\ UNCHANGED <<isbn_cache, cover_cache>>

\* the rest of parse_details once the cover is settled: tags, publisher and
\* date, language, relevance, the caches, clean_downloaded_metadata
Finish(i, wr) ==
    \E ot \in Outcomes, op \in Outcomes, ol \in Outcomes :
       LET w3 == [Guarded(Guarded(Guarded(wr, "tags", ot), "publisher", op), "language", ol)
                    EXCEPT !.pc = "put"]
       IN /\ w' = [w EXCEPT ![i] = w3]
          /\ WithinFaults(w')
          /\ isbn_cache' = IF Truthy(w3.aladin_id) /\ Truthy(w3.isbn)
                           THEN cache_put(isbn_cache, w3.isbn, w3.aladin_id)
                           ELSE isbn_cache
          /\ cover_cache' = IF Truthy(w3.aladin_id) /\ Truthy(w3.cover_url)
                            THEN cache_put(cover_cache, w3.aladin_id, w3.cover_url)
                            ELSE cover_cache

DescResults == {"nonempty", "empty", "failed"}

\* the og:image meta of the page: none, a no-image placeholder, a cover url,
\* or one on which parse_cover raises
OgImages == {"none", "noimg", "img_no.jpg", "url", "exc"}

NoImage_NoimgOnly(img) == img = "noimg"

\* "noimg" in img_url_small or "img_no.jpg" in img_url_small
NoImage(img) == img \in {"noimg", "img_no.jpg"}

\* parse_comments: one description request; after the last one the comments
\* are settled and parse_cover reads the og:image meta
WDesc(i) ==
    /\ i \in 1..Len(w)
    /\ w[i].pc \in {"desc1", "desc2"}
    /\ \E r \in DescResults :
         IF r # "nonempty" /\ w[i].pc = "desc1"
         THEN /\ w' = [w EXCEPT ![i].pc = "desc2"]
              /\ UNCHANGED <<isbn_cache, cover_cache>>
         ELSE \E oc \in Outcomes, img \in OgImages :
                LET w1 == [Guarded(w[i], "comments", oc) EXCEPT !.og_image = img] IN
                IF img \notin {"none", "exc"} /\ ~NoImage(img)
                THEN /\ w' = [w EXCEPT ![i] = [w1 EXCEPT !.pc = "probe"]]
                     /\ WithinFaults(w')
                     /\ UNCHANGED <<isbn_cache, cover_cache>>
                ELSE Finish(i, Guarded(w1, "cover", IF img = "exc" THEN "exc" ELSE "absent"))
    /\ UNCHANGED <<orchVars, abort, result_queue, unitVars, coverVars>>

Accepted_AtLeast(info) == info.opened /\ info.has_length /\ info.length >= 1000

\* int(info.get('Content-Length')) > 1000, inside the try of parse_cover
Accepted(info) == info.opened /\ info.has_length /\ info.length > 1000

OtherAladinId == "27942886"

\* the cover url the og:image meta of a book's page leads to
CoverUrl(aladin_id) ==
    IF aladin_id = OtherAladinId THEN "cover/27942886_1.jpg" ELSE "cover/8932008485_1.jpg"

\* parse_cover: the liveness probe of the cover url
WProbe(i) ==
    /\ i \in 1..Len(w)
    /\ w[i].pc = "probe"
    /\ \E info \in ProbeResponses :
         LET w0 == [w[i] EXCEPT !.info = info]
             w1 == IF Accepted(info)
                   THEN [Guarded(w0, "cover", "ok") EXCEPT !.cover_url = CoverUrl(w[i].aladin_id)]
                   ELSE Guarded(w0, "cover", "absent")
         IN Finish(i, w1)
    /\ UNCHANGED <<orchVars, abort, result_queue, unitVars, coverVars>>

WPut_Again(i) ==
    /\ i \in 1..Len(w)
    /\ w[i].pc = "put"
    /\ Len(result_queue) < 4
    /\ result_queue' = Append(result_queue, Metadata(w[i]))
    /\ w' = [w EXCEPT ![i].exit = "pushed"]
    /\ UNCHANGED <<orchVars, abort, isbn_cache, cover_cache, unitVars, coverVars>>

WPut_UnlessAborted(i) ==
    /\ i \in 1..Len(w)
    /\ w[i].pc = "put"
    /\ IF abort
       THEN /\ w' = [w EXCEPT ![i] = Stop(@, "stopped")]
            /\ UNCHANGED result_queue
       ELSE /\ result_queue' = Append(result_queue, Metadata(w[i]))
            /\ w' = [w EXCEPT ![i].pc = "done", ![i].exit = "pushed"]
    /\ UNCHANGED <<orchVars, abort, isbn_cache, cover_cache, unitVars, coverVars>>

\* result_queue.put(mi), and the thread ends
WPut(i) ==
    /\ i \in 1..Len(w)
    /\ w[i].pc = "put"
    /\ result_queue' = Append(result_queue, Metadata(w[i]))
    /\ w' = [w EXCEPT ![i].pc = "done", ![i].exit = "pushed"]
    /\ UNCHANGED <<orchVars, abort, isbn_cache, cover_cache, unitVars, coverVars>>

WorkerStep(i) == WFetch(i) \/ WDesc(i) \/ WProbe(i) \/ WPut(i)

----------------------------------------------------------------------------
(* identify *)

CurrentCall == calls[Len(calls)]

Return(val) ==
    /\ pc' = "returned"
    /\ retval' = val

\* the plugin before identify is called
Fresh ==
    /\ pc = "idle"
    /\ calls = <<>>
    /\ query = NoQuery
    /\ matches = <<>>
    /\ retval = "none"
    /\ abort = FALSE
    /\ searches = 0
    /\ w = NoWorkers
    /\ k = 0
    /\ a_worker_is_alive = FALSE
    /\ result_queue = <<>>

\* download_cover is not called
NoCover ==
    /\ dc_pc = "none"
    /\ dc_args = None
    /\ cached_url = None
    /\ results = <<>>
    /\ downloads = 0
    /\ cover_queue = <<>>

\* no function is studied on its own
NoUnit ==
    /\ fn = [name |-> "none"]
    /\ ret = None

Init ==
    /\ Fresh
    /\ isbn_cache = {}
    /\ cover_cache = {}
    /\ NoCover
    /\ NoUnit

\* the host calls identify(log, result_queue, abort, title, authors, identifiers)
Call(title, authors, identifiers) ==
    /\ calls' = Append(calls, [title |-> title, authors |-> authors,
                               identifiers |-> identifiers])
    /\ query' = NoQuery
    /\ matches' = <<>>
    /\ pc' = "select"

HostCalls ==
    /\ pc = "idle"
    /\ \E title \in Titles, authors \in AuthorLists, identifiers \in IdentifierDicts :
         /\ WellTyped(identifiers)
         /\ Call(title, authors, identifiers)
    /\ UNCHANGED <<retval, abort, searches, w, k, a_worker_is_alive,
                   result_queue, isbn_cache, cover_cache, unitVars, coverVars>>

\* lines 153-156: the direct candidate, by priority; <<>> when there is none
DirectMatches_IdFirst(isbn, aladin_id) ==
    IF Truthy(aladin_id) THEN <<ItemIdUrl(aladin_id)>>
    ELSE IF Truthy(isbn) THEN <<IsbnUrl(isbn)>>
    ELSE <<>>

DirectMatches_IdOnly(isbn, aladin_id) ==
    IF Truthy(aladin_id) THEN <<ItemIdUrl(aladin_id)>> ELSE <<>>

DirectMatches(isbn, aladin_id) ==
    IF Truthy(isbn) THEN <<IsbnUrl(isbn)>>
    ELSE IF Truthy(aladin_id) THEN <<ItemIdUrl(aladin_id)>>
    ELSE <<>>

\* lines 145-161: the candidate list by priority, or the query
Select ==
    /\ pc = "select"
    /\ LET c == CurrentCall
           aladin_id == Get(c.identifiers, "aladin.co.kr")
           isbn == check_isbn(Get(c.identifiers, "isbn"))
       IN IF DirectMatches(isbn, aladin_id) # <<>>
          THEN /\ matches' = matches \o DirectMatches(isbn, aladin_id)
               /\ pc' = "abort_check"
               /\ UNCHANGED <<query, retval>>
          ELSE LET q == create_query(c.title, c.authors, c.identifiers) IN
               /\ query' = q
               /\ IF q.kind = "None"
                  THEN Return("None")
                  ELSE pc' = "search" /\ UNCHANGED retval
               /\ UNCHANGED matches
    /\ UNCHANGED <<calls, abort, searches, w, k, a_worker_is_alive,
                   result_queue, isbn_cache, cover_cache, unitVars, coverVars>>

SearchResults == {"open_failed", "empty", "unparsable", "page"}

SearchOn_FailureFallsThrough(pages) ==
    /\ pc = "search"
    /\ searches' = searches + 1
    /\ \E r \in SearchResults :
         \/ /\ r = "open_failed"
            /\ pc' = "abort_check"
            /\ retval' = "error"
            /\ UNCHANGED matches
         \/ /\ r = "empty"
            /\ Return("None")
            /\ UNCHANGED matches
         \/ /\ r = "unparsable"
            /\ Return("msg")
            /\ UNCHANGED matches
         \/ /\ r = "page"
            /\ \E root \in pages, max_results \in 1..MaxDownloads :
                 LET c == CurrentCall
                     isbn == check_isbn(Get(c.identifiers, "isbn"))
                 IN matches' = IF Truthy(isbn)
                               THEN _parse_search_isbn_results(root, matches, max_results)
                               ELSE _parse_search_results(c.title, c.authors, root,
                                                          matches, max_results)
            /\ pc' = "abort_check"
            /\ UNCHANGED retval
    /\ UNCHANGED <<calls, query, abort, w, k, a_worker_is_alive,
                   result_queue, isbn_cache, cover_cache, unitVars, coverVars>>

\* lines 162-199: the search request and the parsing of its page
SearchOn(pages) ==
    /\ pc = "search"
    /\ searches' = searches + 1
    /\ \E r \in SearchResults :
         \/ /\ r = "open_failed"
            /\ Return("error")
            /\ UNCHANGED matches
         \/ /\ r = "empty"
            /\ Return("None")
            /\ UNCHANGED matches
         \/ /\ r = "unparsable"
            /\ Return("msg")
            /\ UNCHANGED matches
         \/ /\ r = "page"
            /\ \E root \in pages, max_results \in 1..MaxDownloads :
                 LET c == CurrentCall
                     isbn == check_isbn(Get(c.identifiers, "isbn"))
                 IN matches' = IF Truthy(isbn)
                               THEN _parse_search_isbn_results(root, matches, max_results)
                               ELSE _parse_search_results(c.title, c.authors, root,
                                                          matches, max_results)
            /\ pc' = "abort_check"
            /\ UNCHANGED retval
    /\ UNCHANGED <<calls, query, abort, w, k, a_worker_is_alive,
                   result_queue, isbn_cache, cover_cache, unitVars, coverVars>>

Search == SearchOn(SearchPages)

is_set_Never(event) == FALSE

\* abort.is_set()
is_set(event) == event

\* lines 201-202
AbortCheck ==
    /\ pc = "abort_check"
    /\ IF is_set(abort) THEN Return("None") ELSE pc' = "match_check" /\ UNCHANGED retval
    /\ UNCHANGED <<calls, query, matches, abort, searches, w, k,
                   a_worker_is_alive, result_queue, isbn_cache, cover_cache, unitVars, coverVars>>

Retries_NoIdentifierTest(c) == Truthy(c.title) /\ NonEmptyList(c.authors)

\* the condition of the retry without identifiers (line 205)
Retries(c) == NonEmptyDict(c.identifiers) /\ Truthy(c.title) /\ NonEmptyList(c.authors)

\* lines 204-212: retry without identifiers, give up, or create the workers
MatchCheck ==
    /\ pc = "match_check"
    /\ IF matches = <<>>
       THEN /\ IF Retries(CurrentCall)
               THEN /\ Call(CurrentCall.title, CurrentCall.authors, NoIdentifiers)
                    /\ UNCHANGED retval
               ELSE /\ Return("None")
                    /\ UNCHANGED <<calls, query, matches>>
            /\ UNCHANGED <<w, k>>
       ELSE /\ w' = [i \in 1..Len(matches) |-> Worker(matches[i], i - 1)]
            /\ k' = 1
            /\ pc' = "start"
            /\ UNCHANGED <<calls, query, matches, retval>>
    /\ UNCHANGED <<abort, searches, a_worker_is_alive,
                   result_queue, isbn_cache, cover_cache, unitVars, coverVars>>

\* lines 214-217: w.start(), one worker per pass
StartWorker ==
    /\ pc = "start"
    /\ k <= Len(w)
    /\ w' = [w EXCEPT ![k].pc = "fetch"]
    /\ k' = k + 1
    /\ pc' = IF k = Len(w) THEN "while" ELSE "start"
    /\ UNCHANGED <<calls, query, matches, retval, abort, searches,
                   a_worker_is_alive, result_queue, isbn_cache, cover_cache, unitVars, coverVars>>

\* line 219: while not abort.is_set()
PollWhile ==
    /\ pc = "while"
    /\ IF is_set(abort)
       THEN Return("None") /\ UNCHANGED <<k, a_worker_is_alive>>
       ELSE /\ a_worker_is_alive' = FALSE
            /\ k' = 1
            /\ pc' = "join"
            /\ UNCHANGED retval
    /\ UNCHANGED <<calls, query, matches, abort, searches, w,
                   result_queue, isbn_cache, cover_cache, unitVars, coverVars>>

AfterFor_KeepsPolling(alive) == pc' = "while" /\ UNCHANGED retval

\* line 227, reached when the for loop ends or breaks
AfterFor(alive) == IF ~alive THEN Return("None") ELSE pc' = "while" /\ UNCHANGED retval

\* lines 222-224: w.join(0.2), then the abort check that breaks the for loop
PollJoin ==
    /\ pc = "join"
    /\ IF is_set(abort)
       THEN AfterFor(a_worker_is_alive)
       ELSE pc' = "is_alive" /\ UNCHANGED retval
    /\ UNCHANGED <<calls, query, matches, abort, searches, w, k,
                   a_worker_is_alive, result_queue, isbn_cache, cover_cache, unitVars, coverVars>>

SeenAlive_LastOnly(flag, wr) == Alive(wr)

\* lines 225-226: if w.is_alive(): a_worker_is_alive = True
SeenAlive(flag, wr) == flag \/ Alive(wr)

\* lines 225-228: w.is_alive(), and the end of the for loop
PollAlive ==
    /\ pc = "is_alive"
    /\ LET alive == SeenAlive(a_worker_is_alive, w[k]) IN
       /\ a_worker_is_alive' = alive
       /\ IF k = Len(w)
          THEN AfterFor(alive) /\ UNCHANGED k
          ELSE k' = k + 1 /\ pc' = "join" /\ UNCHANGED retval
    /\ UNCHANGED <<calls, query, matches, abort, searches, w,
                   result_queue, isbn_cache, cover_cache, unitVars, coverVars>>

\* the host sets the abort event
SetAbort ==
    /\ ~abort
    /\ pc # "idle"
    /\ abort' = TRUE
    /\ UNCHANGED <<orchVars, w, result_queue, isbn_cache, cover_cache, unitVars, coverVars>>

Identify ==
    \/ HostCalls \/ Select \/ Search \/ AbortCheck \/ MatchCheck
    \/ StartWorker \/ PollWhile \/ PollJoin \/ PollAlive

Workers == \E i \in 1..MaxDownloads + 1 : WorkerStep(i)

Next == Identify \/ Workers \/ SetAbort

Spec == Init /\ [][Next]_vars

\* the orchestrator thread keeps running: every step of identify is bounded
\* (request timeouts, join(0.2)); nothing is assumed of the workers
FairSpec == Spec /\ WF_vars(Identify)

\* identify called with a title, authors and an ISBN, valid (the direct
\* candidate) or not (the search, and the retry when it finds nothing)
LiveIdentifiers == {[key \in {"isbn"} |-> isbn] : isbn \in Isbns}

LiveHostCalls ==
    /\ pc = "idle"
    /\ \E identifiers \in LiveIdentifiers : Call("T", <<"a">>, identifiers)
    /\ UNCHANGED <<retval, abort, searches, w, k, a_worker_is_alive,
                   result_queue, isbn_cache, cover_cache, unitVars, coverVars>>

LiveIdentify ==
    \/ LiveHostCalls \/ Select \/ Search \/ AbortCheck \/ MatchCheck
    \/ StartWorker \/ PollWhile \/ PollJoin \/ PollAlive

LiveNext == LiveIdentify \/ Workers \/ SetAbort

\* the identify thread keeps running, and the started workers too: each
\* request of a worker is made with a timeout, so while a worker is alive some
\* worker takes a step; a worker has finitely many steps, so every started
\* worker ends
LiveSpec == Init /\ [][LiveNext]_vars /\ WF_vars(LiveIdentify) /\ WF_vars(Workers)

----------------------------------------------------------------------------
(* download_cover *)

\* cached_isbn_to_identifier / cached_identifier_to_cover_url: dict.get
cache_get(cache, key) ==
    IF \E p \in cache : p[1] = key
    THEN (CHOOSE p \in cache : p[1] = key)[2]
    ELSE None

get_cached_cover_url(identifiers) ==
    LET given == Get(identifiers, "aladin.co.kr")
        isbn == Get(identifiers, "isbn")
        aladin_id == IF given = None
                     THEN (IF isbn # None THEN cache_get(isbn_cache, isbn) ELSE None)
                     ELSE given
    IN IF aladin_id # None THEN cache_get(cover_cache, aladin_id) ELSE None

\* mi.identifiers of a record of the queue
IdentifiersOf(mi) ==
    IF mi.isbn = None
    THEN [x \in {"aladin.co.kr"} |-> mi.aladin_id]
    ELSE [x \in Keys |-> IF x = "isbn" THEN mi.isbn ELSE mi.aladin_id]

\* results.sort(key=identify_results_keygen(...)): the host's key, of which
\* the plugin sets the relevance; the sort is stable
RECURSIVE Sorted(_)
Sorted(records) ==
    IF Len(records) = 0 THEN <<>>
    ELSE LET first == CHOOSE i \in 1..Len(records) :
                         \A j \in 1..Len(records) :
                            \/ records[i].source_relevance < records[j].source_relevance
                            \/ (records[i].source_relevance = records[j].source_relevance
                                /\ i <= j)
             rest == [j \in 1..Len(records) - 1 |->
                        IF j < first THEN records[j] ELSE records[j + 1]]
         IN <<records[first]>> \o Sorted(rest)

RECURSIVE FirstCached_Last(_, _)
FirstCached_Last(sorted, i) ==
    IF i > Len(sorted) THEN None
    ELSE LET later == FirstCached_Last(sorted, i + 1) IN
         IF later # None THEN later ELSE get_cached_cover_url(IdentifiersOf(sorted[i]))

\* the loop over the sorted results: the first cached cover url, else None
RECURSIVE FirstCached(_, _)
FirstCached(sorted, i) ==
    IF i > Len(sorted) THEN None
    ELSE LET url == get_cached_cover_url(IdentifiersOf(sorted[i])) IN
         IF url # None THEN url ELSE FirstCached(sorted, i + 1)

\* what the caches hold from earlier calls of identify: nothing, or a book
\* with its cover
WarmIsbnCache == {<<ValidIsbn, "8932008485">>}
WarmCoverCache == {<<"8932008485", CoverUrl("8932008485")>>}

\* the books a cover is asked for: a title, an author, and identifiers whose
\* ISBN, when there is one, is valid
CoverTitles == {"T"}
CoverAuthors == {<<"a">>}
CoverIdentifiers ==
    {ids \in IdentifierDicts : WellTyped(ids) /\ Get(ids, "isbn") # BadIsbn}

\* the search pages of these runs: two books that match the title and authors
CoverBlocks == [title : {<<"T">>}, authors : {<<"a">>},
                href : {ItemIdUrl("8932008485"), ItemIdUrl(OtherAladinId)},
                format : {"[book]"}]

\* a page lists a book once
CoverPages ==
    {root \in PagesOf(CoverBlocks) :
        \A i \in 1..Len(root) : \A j \in 1..Len(root) :
           root[i].href = root[j].href => i = j}

CoverInit ==
    /\ Fresh
    /\ \/ isbn_cache = {} /\ cover_cache = {}
       \/ isbn_cache = WarmIsbnCache /\ cover_cache = WarmCoverCache
    /\ NoCover
    /\ NoUnit

\* the host calls download_cover; lines 366-369: the cached url, else identify
\* on a queue of its own
DcCall ==
    /\ dc_pc = "none"
    /\ pc = "idle"
    /\ \E title \in CoverTitles, authors \in CoverAuthors, identifiers \in CoverIdentifiers :
         /\ dc_args' = [title |-> title, authors |-> authors, identifiers |-> identifiers,
                         abort |-> is_set(abort)]
         /\ cached_url' = get_cached_cover_url(identifiers)
         /\ IF get_cached_cover_url(identifiers) = None
            THEN /\ Call(title, authors, identifiers)
                 /\ dc_pc' = "identify"
            ELSE /\ dc_pc' = "abort_check"
                 /\ UNCHANGED <<pc, calls, query, matches>>
    /\ UNCHANGED <<retval, abort, searches, w, k, a_worker_is_alive, result_queue,
                   isbn_cache, cover_cache, results, downloads, cover_queue, unitVars>>

\* lines 370-385: identify has returned; the abort check, the drained and
\* sorted records, the first cached cover url among them
DcAfterIdentify ==
    /\ dc_pc = "identify"
    /\ pc = "returned"
    /\ IF is_set(abort)
       THEN /\ dc_pc' = "done"
            /\ UNCHANGED <<result_queue, results, cached_url>>
       ELSE /\ result_queue' = <<>>
            /\ results' = Sorted(result_queue)
            /\ cached_url' = FirstCached(Sorted(result_queue), 1)
            /\ dc_pc' = IF FirstCached(Sorted(result_queue), 1) = None
                        THEN "done" ELSE "abort_check"
    /\ UNCHANGED <<pc, calls, query, matches, retval, abort, searches, w, k,
                   a_worker_is_alive, isbn_cache, cover_cache, dc_args, downloads,
                   cover_queue, unitVars>>

DcAbortCheck_Ignored ==
    /\ dc_pc = "abort_check"
    /\ dc_pc' = "download"
    /\ UNCHANGED <<identifyVars, dc_args, cached_url, results, downloads, cover_queue,
                   unitVars>>

\* lines 387-388
DcAbortCheck ==
    /\ dc_pc = "abort_check"
    /\ dc_pc' = IF is_set(abort) THEN "done" ELSE "download"
    /\ UNCHANGED <<identifyVars, dc_args, cached_url, results, downloads, cover_queue,
                   unitVars>>

DownloadResults == {"ok", "failed"}

\* lines 389-396: the download of the cover, and the (source, bytes) pair
DcDownload ==
    /\ dc_pc = "download"
    /\ downloads' = downloads + 1
    /\ \E r \in DownloadResults :
         cover_queue' = IF r = "ok"
                        THEN Append(cover_queue, [source |-> "Aladin.co.kr",
                                                  cdata |-> cached_url])
                        ELSE cover_queue
    /\ dc_pc' = "done"
    /\ UNCHANGED <<identifyVars, dc_args, cached_url, results, unitVars>>

CoverSearch == SearchOn(CoverPages)

\* the host sets the abort event, before the call or during it
CoverAbort ==
    /\ ~abort
    /\ dc_pc # "done"
    /\ abort' = TRUE
    /\ UNCHANGED <<orchVars, w, result_queue, isbn_cache, cover_cache, unitVars, coverVars>>

DownloadCover == DcCall \/ DcAfterIdentify \/ DcAbortCheck \/ DcDownload

CoverIdentify ==
    \/ Select \/ CoverSearch \/ AbortCheck \/ MatchCheck
    \/ StartWorker \/ PollWhile \/ PollJoin \/ PollAlive

CoverNext == DownloadCover \/ CoverIdentify \/ Workers \/ CoverAbort

CoverSpec == CoverInit /\ [][CoverNext]_vars

----------------------------------------------------------------------------
(* The search-results parsers on their own *)

OtherIsbn == "8965744024"

ParserTitles == {<<>>, <<"x">>, <<"x", "t">>, <<"x", "(", "T">>}
ParserAuthors == {<<"z">>, <<"z", "A">>}
ParserUrls == {IsbnUrl(ValidIsbn), IsbnUrl(OtherIsbn)}
ParserBlocks == [title : ParserTitles, authors : ParserAuthors, href : ParserUrls,
                 format : BlockFormats]

\* the call has not returned yet, has returned v, has raised
Pending == [state |-> "pending"]
Returned(v) == [state |-> "returned", val |-> v]
Raised == [state |-> "raised"]

\* the calls: a page, the configured max_results and, for the title/author
\* variant, the title and authors identify was given
ParserCalls ==
    [name : {"_parse_search_isbn_results"}, orig_title : {None}, orig_authors : {<<>>},
     root : PagesOf(ParserBlocks), max_results : 1..MaxDownloads]
    \cup
    [name : {"_parse_search_results"}, orig_title : Titles, orig_authors : AuthorLists,
     root : PagesOf(ParserBlocks), max_results : 1..MaxDownloads]

\* nothing else is going on while a function is studied
Idle ==
    /\ Fresh
    /\ isbn_cache = {}
    /\ cover_cache = {}
    /\ NoCover

ParserInit ==
    /\ Idle
    /\ fn \in ParserCalls
    /\ ret = Pending

ParseIsbnResults ==
    /\ fn.name = "_parse_search_isbn_results"
    /\ ret = Pending
    /\ ret' = Returned(_parse_search_isbn_results(fn.root, <<>>, fn.max_results))
    /\ UNCHANGED <<identifyVars, coverVars, fn>>

ParseResults ==
    /\ fn.name = "_parse_search_results"
    /\ ret = Pending
    /\ ret' = Returned(_parse_search_results(fn.orig_title, fn.orig_authors, fn.root,
                                             <<>>, fn.max_results))
    /\ UNCHANGED <<identifyVars, coverVars, fn>>

ParserNext == ParseIsbnResults \/ ParseResults

ParserSpec == ParserInit /\ [][ParserNext]_vars

----------------------------------------------------------------------------
(* Worker.parse_authors on its own *)

MaxAuthorNodes == 3     \* author links in the author-list region

\* an author link: its text, and the text that follows it (its tail: a role
\* annotation in parentheses, other text, or nothing at all)
AuthorTexts == {"", "A", "B"}
AuthorTails == {None, "", "(r)"}
AuthorNodes == [text : AuthorTexts, tail : AuthorTails]

AuthorRegions == UNION { [1..n -> AuthorNodes] : n \in 0..MaxAuthorNodes }

\* re.search(r"\(.*\)", tail)
HasRole(tail) == tail = "(r)"

\* the for loop of parse_authors; it raises when re.search is handed None
RECURSIVE AuthorLoop(_, _, _, _)
AuthorLoop(author_nodes, i, authors, get_all_authors) ==
    IF i > Len(author_nodes) THEN Returned(authors)
    ELSE LET node == author_nodes[i]
             authors2 == IF node.text # "" THEN Append(authors, node.text) ELSE authors
         IN IF get_all_authors
            THEN IF node.tail = None THEN Raised
                 ELSE IF HasRole(node.tail) THEN Returned(authors2)
                 ELSE AuthorLoop(author_nodes, i + 1, authors2, get_all_authors)
            ELSE AuthorLoop(author_nodes, i + 1, authors2, get_all_authors)

parse_authors(get_all_authors, author_nodes) ==
    IF Len(author_nodes) = 0 THEN Returned(None)
    ELSE AuthorLoop(author_nodes, 1, <<>>, get_all_authors)

AuthorsInit ==
    /\ Idle
    /\ fn \in [name : {"parse_authors"}, get_all_authors : BOOLEAN,
               author_nodes : AuthorRegions]
    /\ ret = Pending

ParseAuthors ==
    /\ fn.name = "parse_authors"
    /\ ret = Pending
    /\ ret' = parse_authors(fn.get_all_authors, fn.author_nodes)
    /\ UNCHANGED <<identifyVars, coverVars, fn>>

AuthorsNext == ParseAuthors

AuthorsSpec == AuthorsInit /\ [][AuthorsNext]_vars

----------------------------------------------------------------------------
(* Worker.parse_tags on its own *)

MaxCategories == 2      \* li entries of ul#ulCategory
MaxLevels == 2          \* category links of one entry, below the store section

CategoryNames == {"a", "B"}

\* an entry of the category list: the texts of its category links, in order
Breadcrumbs == UNION { [1..n -> CategoryNames] : n \in 1..MaxLevels }

CategoryLists == UNION { [1..n -> Breadcrumbs] : n \in 0..MaxCategories }

\* the genre mapping table of the configuration: genre -> list of tags
GenreKeys == {"a", "b"}
GenreTagLists == {<<>>, << <<"x">> >>, << <<"y">>, <<"x">> >>}
GenreMappings == UNION { [ks -> GenreTagLists] : ks \in SUBSET GenreKeys }

CategoryPrefixes == {<<>>, <<"P">>}

\* ".".join(levels)
RECURSIVE joinDot(_)
joinDot(levels) ==
    IF Len(levels) = 0 THEN <<>>
    ELSE IF Len(levels) = 1 THEN <<levels[1]>>
    ELSE <<levels[1], ".">> \o joinDot(Tail(levels))

\* tag in list
InList(tag, list) == \E i \in 1..Len(list) : list[i] = tag

\* the inner loop of _convert_genres_to_calibre_tags
RECURSIVE AddTags(_, _, _)
AddTags(tags, i, tags_to_add) ==
    IF i > Len(tags) THEN tags_to_add
    ELSE AddTags(tags, i + 1,
                 IF InList(tags[i], tags_to_add) THEN tags_to_add
                 ELSE Append(tags_to_add, tags[i]))

RECURSIVE ConvertLoop(_, _, _, _)
ConvertLoop(calibre_tag_map, genre_tags, i, tags_to_add) ==
    IF i > Len(genre_tags) THEN tags_to_add
    ELSE LET key == lower(genre_tags[i])
             tags == IF key \in DOMAIN calibre_tag_map THEN calibre_tag_map[key] ELSE <<>>
         IN ConvertLoop(calibre_tag_map, genre_tags, i + 1, AddTags(tags, 1, tags_to_add))

_convert_genres_to_calibre_tags(calibre_tag_lookup, genre_tags) ==
    LET calibre_tag_map ==
            [key \in {lower(<<x>>) : x \in DOMAIN calibre_tag_lookup} |->
                calibre_tag_lookup[CHOOSE x \in DOMAIN calibre_tag_lookup : lower(<<x>>) = key]]
    IN ConvertLoop(calibre_tag_map, genre_tags, 1, <<>>)

\* the tag of each entry when the categories are the tags
RECURSIVE CategoryLoop(_, _, _, _)
CategoryLoop(genres_node, i, calibre_tags, category_prefix) ==
    IF i > Len(genres_node) THEN calibre_tags
    ELSE CategoryLoop(genres_node, i + 1,
                      Append(calibre_tags, category_prefix \o joinDot(genres_node[i])),
                      category_prefix)

\* every category link of the list, in document order
RECURSIVE Links(_)
Links(genres_node) ==
    IF Len(genres_node) = 0 THEN <<>> ELSE genres_node[1] \o Links(Tail(genres_node))

\* the loop over the category links; tags[0] raises on an empty list
RECURSIVE TagLoop(_, _, _, _, _)
TagLoop(tags_list, i, calibre_tags, convert_tag_lookup, genre_mappings) ==
    IF i > Len(tags_list) THEN Returned(calibre_tags)
    ELSE LET tags_ == << <<tags_list[i]>> >>
             tags == IF convert_tag_lookup
                     THEN _convert_genres_to_calibre_tags(genre_mappings, tags_)
                     ELSE tags_
         IN IF Len(tags) = 0 THEN Raised
            ELSE IF InList(tags[1], calibre_tags)
                 THEN TagLoop(tags_list, i + 1, calibre_tags, convert_tag_lookup,
                              genre_mappings)
                 ELSE TagLoop(tags_list, i + 1, calibre_tags \o tags, convert_tag_lookup,
                              genre_mappings)

parse_tags(aladin_category_lookup, convert_tag_lookup, genre_mappings, category_prefix, genres_node) ==
    IF aladin_category_lookup
    THEN Returned(CategoryLoop(genres_node, 1, <<>>, category_prefix))
    ELSE TagLoop(Links(genres_node), 1, <<>>, convert_tag_lookup, genre_mappings)

TagsInit ==
    /\ Idle
    /\ fn \in [name : {"parse_tags"}, get_category : BOOLEAN, convert_tag : BOOLEAN,
               genre_mappings : GenreMappings, category_prefix : CategoryPrefixes,
               genres_node : CategoryLists]
    /\ ret = Pending

ParseTags ==
    /\ fn.name = "parse_tags"
    /\ ret = Pending
    /\ ret' = parse_tags(fn.get_category, fn.convert_tag, fn.genre_mappings,
                         fn.category_prefix, fn.genres_node)
    /\ UNCHANGED <<identifyVars, coverVars, fn>>

TagsNext == ParseTags

TagsSpec == TagsInit /\ [][TagsNext]_vars

----------------------------------------------------------------------------
(* Worker.parse_title_series on its own *)

MaxSeriesLen == 3       \* characters of the text of the series link

\* an optional value: None, or a value
NoValue == [present |-> FALSE]
Value(v) == [present |-> TRUE, val |-> v]

\* a float
Float(n) == [float |-> n]

IsSpace(c) == c = " "
Digits == <<"0", "1", "2", "3", "4", "5", "6", "7", "8", "9">>
IsDigit(c) == \E i \in 1..10 : Digits[i] = c
DigitVal(c) == (CHOOSE i \in 1..10 : Digits[i] = c) - 1

\* str.strip()
strip(text) ==
    IF \A i \in 1..Len(text) : IsSpace(text[i]) THEN <<>>
    ELSE LET a == CHOOSE i \in 1..Len(text) :
                     ~IsSpace(text[i]) /\ \A j \in 1..(i - 1) : IsSpace(text[j])
             b == CHOOSE i \in 1..Len(text) :
                     ~IsSpace(text[i]) /\ \A j \in (i + 1)..Len(text) : IsSpace(text[j])
         IN SubSeq(text, a, b)

\* the text of the title link, and the text of the series link of the heading
\* when it has one
TitleTexts == {<<"H">>, <<"H", " ", "(", "r", ")">>, <<"(", "r", ")", " ", "H">>}
SeriesChars == {"S", " ", "1", "3"}
SeriesTexts == UNION {[1..n -> SeriesChars] : n \in 0..MaxSeriesLen}

\* the title heading of the detail page, or no heading
NoHeading == [found |-> FALSE]
Headings ==
    {NoHeading}
    \cup [found : {TRUE}, title : TitleTexts, has_series : {FALSE}, series : {<<>>}]
    \cup [found : {TRUE}, title : TitleTexts, has_series : {TRUE}, series : SeriesTexts]

\* text_content() of the heading: the title link, then " | " and the series link
text_content(heading) ==
    IF heading.has_series THEN heading.title \o <<" ", "|", " ">> \o heading.series
    ELSE heading.title

\* re.sub(r'\|\s*' + info, "", text) for an info without regex metacharacters
\* that does not start with whitespace
RECURSIVE SubAnnotation(_, _, _, _)
SubAnnotation(text, i, info, out) ==
    IF i > Len(text) THEN out
    ELSE LET rest == {j \in (i + 1)..Len(text) : ~IsSpace(text[j])}
             j == IF rest = {} THEN Len(text) + 1
                  ELSE CHOOSE x \in rest : \A y \in rest : x <= y
             hit == /\ text[i] = "|"
                    /\ j + Len(info) - 1 <= Len(text)
                    /\ SubSeq(text, j, j + Len(info) - 1) = info
         IN IF hit THEN SubAnnotation(text, j + Len(info), info, out)
            ELSE SubAnnotation(text, i + 1, info, Append(out, text[i]))

\* the match of r"\s+(\d+)\s*$" in a stripped text: the lengths of its digit
\* run and of the whitespace run before it, <<0, 0>> when there is no match
SeriesIndexMatch(info) ==
    LET n == Len(info)
        digits == CHOOSE d \in 0..n :
                     /\ \A i \in (n - d + 1)..n : IsDigit(info[i])
                     /\ (d < n => ~IsDigit(info[n - d]))
        spaces == CHOOSE m \in 0..(n - digits) :
                     /\ \A i \in (n - digits - m + 1)..(n - digits) : IsSpace(info[i])
                     /\ (m < n - digits => ~IsSpace(info[n - digits - m]))
    IN IF digits > 0 /\ spaces > 0 THEN <<digits, spaces>> ELSE <<0, 0>>

\* int of a digit string
RECURSIVE Number(_)
Number(digits) ==
    IF Len(digits) = 0 THEN 0
    ELSE 10 * Number(SubSeq(digits, 1, Len(digits) - 1)) + DigitVal(digits[Len(digits)])

parse_title_series(heading) ==
    IF ~heading.found
    THEN [title |-> NoValue, series |-> NoValue, series_index |-> NoValue]
    ELSE IF ~heading.has_series
    THEN [title |-> Value(strip(text_content(heading))),
          series |-> NoValue, series_index |-> NoValue]
    ELSE LET series_info == strip(heading.series)
             title_text == strip(SubAnnotation(strip(text_content(heading)), 1,
                                               series_info, <<>>))
             m == SeriesIndexMatch(series_info)
             n == Len(series_info)
         IN IF series_info = <<>>
            THEN [title |-> Value(title_text), series |-> NoValue, series_index |-> NoValue]
            ELSE IF m[1] > 0
            THEN [title |-> Value(title_text),
                  series |-> Value(SubSeq(series_info, 1, n - m[1] - m[2])),
                  series_index |-> Value(Float(Number(SubSeq(series_info, n - m[1] + 1, n))))]
            ELSE [title |-> Value(title_text),
                  series |-> Value(series_info),
                  series_index |-> Value(Float(0))]

TitleInit ==
    /\ Idle
    /\ fn \in [name : {"parse_title_series"}, heading : Headings]
    /\ ret = Pending

ParseTitleSeries ==
    /\ fn.name = "parse_title_series"
    /\ ret = Pending
    /\ ret' = Returned(parse_title_series(fn.heading))
    /\ UNCHANGED <<identifyVars, coverVars, fn>>

TitleNext == ParseTitleSeries

TitleSpec == TitleInit /\ [][TitleNext]_vars

----------------------------------------------------------------------------
(* Worker.parse_rating on its own *)

MaxRatingNodes == 3     \* text nodes of the rating control

\* the text nodes of the rating link
RatingTexts == {<<" ">>, <<"8", ".", "7", " ">>, <<"0">>, <<"x">>}
RatingNodeLists == UNION {[1..n -> RatingTexts] : n \in 0..MaxRatingNodes}

\* the texts float() accepts, among RatingTexts: digits with at most one
\* point and at most one digit after it
Numeric(text) ==
    /\ \E i \in 1..Len(text) : IsDigit(text[i])
    /\ \A i \in 1..Len(text) : IsDigit(text[i]) \/ text[i] = "."
    /\ \A i \in 1..Len(text) : text[i] = "." => (i >= Len(text) - 1 /\ i > 1)
    /\ Cardinality({i \in 1..Len(text) : text[i] = "."}) <= 1

\* a float, given in hundredths
Hundredths(n) == [hundredths |-> n]

\* float(text) / 2 of a numeric text
HalfOf(text) ==
    LET dots == {i \in 1..Len(text) : text[i] = "."}
        tenths == IF dots = {} THEN 10 * Number(text)
                  ELSE LET d == CHOOSE i \in dots : TRUE
                       IN 10 * Number(SubSeq(text, 1, d - 1))
                          + Number(SubSeq(text, d + 1, Len(text)))
    IN Hundredths(5 * tenths)

\* the loop of parse_rating over the text nodes from node i on
RECURSIVE RatingLoop(_, _)
RatingLoop(rating_nodes, i) ==
    IF i > Len(rating_nodes) THEN Returned(NoValue)
    ELSE LET rating_value == strip(rating_nodes[i]) IN
         IF rating_value # <<>>
         THEN IF Numeric(rating_value) THEN Returned(Value(HalfOf(rating_value)))
              ELSE Raised
         ELSE RatingLoop(rating_nodes, i + 1)

parse_rating(rating_nodes) == RatingLoop(rating_nodes, 1)

\* mi.rating after the guarded call of parse_details
mi_rating(outcome) == IF outcome.state = "returned" THEN outcome.val ELSE NoValue

RatingInit ==
    /\ Idle
    /\ fn \in [name : {"parse_rating"}, rating_nodes : RatingNodeLists]
    /\ ret = Pending

ParseRating ==
    /\ fn.name = "parse_rating"
    /\ ret = Pending
    /\ ret' = parse_rating(fn.rating_nodes)
    /\ UNCHANGED <<identifyVars, coverVars, fn>>

RatingNext == ParseRating

RatingSpec == RatingInit /\ [][RatingNext]_vars

----------------------------------------------------------------------------
(* Worker.parse_comments on its own *)

\* the endpoint names, in the order of the loop
names == <<"Introduce", "PublisherDesc">>

\* the document of a description response: whether fromstring parses it, its
\* "introduce" block and its "publisher description" block (absent, blank
\* once sanitized, or with html), and its table of contents
BlockKinds == {"absent", "blank", "html"}
TocKinds == {"none", "short", "all"}
Unparsable == [parsable |-> FALSE, intro |-> "absent", publisher |-> "absent", toc |-> "none"]
DescDocs ==
    {Unparsable}
    \cup [parsable : {TRUE}, intro : BlockKinds, publisher : BlockKinds, toc : TocKinds]

\* what a description request gives: a document, nothing but whitespace, or
\* an exception (404, timeout, other)
DescFailures == {"404", "timeout", "error"}
DescResponses ==
    [kind : {"doc"}, doc : DescDocs]
    \cup [kind : {"empty"} \cup DescFailures, doc : {Unparsable}]

Break_Never(response) == FALSE

\* len(rawDesc) > 0: the loop stops at this response
Break(response) == response.kind = "doc"

\* the local state of parse_comments: the requests sent so far with their
\* responses, and rawDesc
Comments(state, log, rawDesc) == [state |-> state, log |-> log, rawDesc |-> rawDesc]
NoDesc == [kind |-> "empty", doc |-> Unparsable]

\* lines 405-495: the comments from rawDesc, the page and the configuration
Html(kind, text) == IF kind = "html" THEN <<text>> ELSE <<>>

BuildComments(rawDesc, description, append_toc, comments_suffix) ==
    LET parsed == rawDesc.kind = "doc" /\ rawDesc.doc.parsable
        doc == rawDesc.doc
        block == IF ~parsed THEN <<>>
                 ELSE IF doc.intro # "absent" THEN Html(doc.intro, "i")
                 ELSE IF doc.publisher # "absent" THEN Html(doc.publisher, "p")
                 ELSE <<>>
        toc == IF parsed /\ append_toc /\ doc.toc # "none"
               THEN <<IF doc.toc = "all" THEN "toc_all" ELSE "toc_short">>
               ELSE <<>>
        c1 == IF block = <<>> THEN description ELSE block
        c2 == IF c1 # <<>> THEN <<"<div id=\"comments\">">> \o c1 \o <<"</div>">> ELSE c1
        c3 == IF toc # <<>> THEN c2 \o <<"<h3>[toc]</h3><div id=\"toc\">">> \o toc \o <<"</div>">>
              ELSE c2
    IN IF c3 # <<>> /\ comments_suffix # <<>> THEN c3 \o comments_suffix ELSE c3

\* the inputs: the content of the page's meta description (<<>> when the page
\* has none) and the two settings
CommentsInit ==
    /\ Idle
    /\ fn \in [name : {"parse_comments"}, description : {<<>>, <<"m">>},
               append_toc : BOOLEAN, comments_suffix : {<<>>, <<"s">>}]
    /\ ret = Comments("loop", <<>>, NoDesc)

\* one pass of the loop of lines 382-403: the request for the next name
DescRequest ==
    /\ fn.name = "parse_comments"
    /\ ret.state = "loop"
    /\ Len(ret.log) < Len(names)
    /\ \E response \in DescResponses :
         LET log == Append(ret.log, [name |-> names[Len(ret.log) + 1], response |-> response])
             rawDesc == IF response.kind \in DescFailures THEN ret.rawDesc ELSE response
         IN ret' = Comments(IF Break(response) \/ Len(log) = Len(names) THEN "parse" ELSE "loop",
                            log, rawDesc)
    /\ UNCHANGED <<identifyVars, coverVars, fn>>

\* lines 405-496
ParseComments ==
    /\ fn.name = "parse_comments"
    /\ ret.state = "parse"
    /\ ret' = [state |-> "returned", log |-> ret.log, rawDesc |-> ret.rawDesc,
               val |-> BuildComments(ret.rawDesc, fn.description, fn.append_toc,
                                     fn.comments_suffix)]
    /\ UNCHANGED <<identifyVars, coverVars, fn>>

CommentsNext == DescRequest \/ ParseComments

CommentsSpec == CommentsInit /\ [][CommentsNext]_vars

----------------------------------------------------------------------------
(* Properties *)

FirstIsbn == Get(calls[1].identifiers, "isbn")
FirstAladinId == Get(calls[1].identifiers, "aladin.co.kr")
Selected == calls # <<>> /\ ~(pc = "select" /\ Len(calls) = 1)

\* the records on the queue that carry rank i - 1
RecordsOf(i) == {j \in 1..Len(result_queue) : result_queue[j].source_relevance = i - 1}

Started == {i \in 1..Len(w) : w[i].pc # "created"}

FailedResponses ==
    {"404", "timeout", "error", "unparsable", "generic", "title_error", "error_block"}

\* C1: identify picks its candidates by strict priority.  With a valid ISBN
\* among the identifiers the candidate list is exactly the one ISBN detail URL
\* and no search request is sent; else with a site identifier it is exactly
\* the one ItemId detail URL and no search request is sent; a query is built
\* and a search request sent only when neither is there.
C1_CandidatePriority ==
    Selected =>
        /\ FirstIsbn = ValidIsbn =>
              matches = <<IsbnUrl(ValidIsbn)>> /\ searches = 0 /\ query = NoQuery
        /\ FirstIsbn # ValidIsbn /\ FirstAladinId \in AladinIds =>
              matches = <<ItemIdUrl(FirstAladinId)>> /\ searches = 0 /\ query = NoQuery
        /\ (pc = "search" \/ searches > 0 \/ query # NoQuery) =>
              FirstIsbn # ValidIsbn /\ FirstAladinId \notin AladinIds

C1_Witness ==
    /\ pc = "while"
    /\ FirstIsbn = ValidIsbn /\ FirstAladinId \in AladinIds
    /\ Len(w) = 1 /\ w[1].url = IsbnUrl(ValidIsbn) /\ searches = 0

\* C2: the retry without identifiers happens at most once.  A call that was
\* given identifiers, a title and authors and reaches the no-match test with
\* no candidate re-runs identify once, with the same title and authors and no
\* identifiers; the retried call never retries; when it has no candidate
\* either, identify returns with no worker created and nothing on the queue.
C2_Calls ==
    /\ Len(calls) <= 2
    /\ Len(calls) = 2 =>
          /\ calls[2].identifiers = NoIdentifiers
          /\ calls[2].title = calls[1].title /\ calls[2].authors = calls[1].authors
          /\ DOMAIN calls[1].identifiers # {}
    /\ (pc = "returned" /\ matches = <<>>) => (w = <<>> /\ result_queue = <<>>)

C2_Step ==
    (pc = "match_check" /\ pc' # pc /\ matches = <<>>) =>
        IF Len(calls) = 1 /\ DOMAIN calls[1].identifiers # {}
              /\ calls[1].title = "T" /\ calls[1].authors # <<>>
        THEN Len(calls') = 2 /\ pc' = "select"
        ELSE pc' = "returned" /\ calls' = calls /\ w' = <<>>

C2_RetryAtMostOnce == [](C2_Calls) /\ [][C2_Step]_vars

C2_Witness ==
    /\ pc = "returned" /\ ~abort
    /\ Len(calls) = 2 /\ searches = 2 /\ matches = <<>> /\ w = <<>>

\* C3: whenever identify was given identifiers, a title and authors and ends
\* (not aborted) with no record on the queue, a title/author search was made.
C3_RetryAfterNoRecord ==
    ( /\ pc = "returned" /\ ~abort
      /\ DOMAIN calls[1].identifiers # {}
      /\ calls[1].title = "T" /\ calls[1].authors # <<>>
      /\ result_queue = <<>> )
    => searches > 0

\* C4: every record on the queue has a non-empty title, a non-empty author
\* list and a site identifier, and a worker that could not resolve one of the
\* three ends without a record.
C4_RecordsResolved ==
    /\ \A j \in 1..Len(result_queue) :
          /\ result_queue[j].title \notin {None, ""}
          /\ result_queue[j].authors # <<>>
          /\ result_queue[j].aladin_id \notin {None, ""}
    /\ \A i \in 1..Len(w) :
          (w[i].resp = "details" /\ w[i].out = NoOut /\ w[i].pc = "done")
             => (w[i].exit = "missing" /\ RecordsOf(i) = {})

C4_Witness ==
    /\ Len(w) = 2
    /\ w[1].exit = "missing" /\ w[1].pc = "done"
    /\ Len(result_queue) = 1 /\ result_queue[1].source_relevance = 1

\* C5: a worker pushes at most one record: the queue never holds two records
\* of one rank, nor more records than workers were started, and a worker has
\* its record there exactly when it ended by pushing.
C5_OneRecordPerWorker ==
    /\ Len(result_queue) <= Cardinality(Started)
    /\ \A j \in 1..Len(result_queue) : result_queue[j].source_relevance \in 0..Len(w) - 1
    /\ \A i \in 1..Len(w) :
          /\ Cardinality(RecordsOf(i)) <= 1
          /\ (RecordsOf(i) # {}) <=> (w[i].exit = "pushed")

C5_Witness ==
    /\ Len(w) = 2 /\ Len(result_queue) = 2
    /\ result_queue[1].source_relevance = 1 /\ result_queue[2].source_relevance = 0

\* C6: a failing extractor of an optional field costs only that field.  A
\* worker past the gate of parse_details never stops early: it runs every
\* extractor and pushes a record that holds each field whose extractor did
\* not fail.
C6_FieldFailuresStayLocal ==
    \A i \in 1..Len(w) :
       (w[i].out # NoOut) =>
          /\ w[i].exit \in {"none", "pushed"}
          /\ w[i].pc \in {"desc1", "desc2", "probe", "put", "done"}
          /\ w[i].pc \in {"put", "done"} => DOMAIN w[i].out = OptionalFields
          /\ w[i].pc = "done" =>
                \E j \in RecordsOf(i) :
                   result_queue[j].fields = {f \in OptionalFields : w[i].out[f] # "exc"
                                                                     /\ w[i].out[f] # "absent"}

C6_Witness ==
    \E i \in 1..Len(w) : \E f \in OptionalFields :
       /\ w[i].pc = "done" /\ w[i].exit = "pushed"
       /\ f \in DOMAIN w[i].out /\ w[i].out[f] = "exc"
       /\ \E j \in RecordsOf(i) : result_queue[j].fields = OptionalFields \ {f}

\* C7: a worker whose fetch fails, whose page cannot be parsed, is the
\* generic fallback page or holds the error block ends with no record, leaves
\* the caches as they are and lets no exception out of the thread.
C7_State ==
    \A i \in 1..Len(w) :
       (w[i].resp \in FailedResponses) =>
          /\ w[i].pc = "done" /\ w[i].exit = "stopped"
          /\ RecordsOf(i) = {}
          /\ ~w[i].uncaught

C7_Step ==
    \A i \in 1..Len(w) :
       (i <= Len(w') /\ w[i].pc = "fetch" /\ w'[i].resp \in FailedResponses) =>
          UNCHANGED <<result_queue, isbn_cache, cover_cache>>

C7_FailedFetchPushesNothing == [](C7_State) /\ [][C7_Step]_vars

C7_Witness ==
    /\ Len(w) = 2
    /\ w[1].resp = "error_block" /\ w[2].resp = "404"
    /\ pc = "returned" /\ result_queue = <<>> /\ isbn_cache = {} /\ cover_cache = {}

\* C8: when identify has returned from its worker phase and the abort flag is
\* not set, every worker it created has run and ended, and nothing is pushed
\* from then on.
C8_State ==
    (pc = "returned" /\ ~abort) => \A i \in 1..Len(w) : w[i].pc = "done"

C8_Step == (pc = "returned" /\ ~abort) => result_queue' = result_queue

C8_ReturnsAfterWorkers == [](C8_State) /\ [][C8_Step]_vars

C8_Witness ==
    /\ pc = "returned" /\ ~abort
    /\ Len(w) = 2 /\ Len(result_queue) = 2

\* C9: identify does not wait for workers once the abort flag is set.  A flag
\* found set by the check before the worker phase makes identify return with
\* no worker created; a flag set later makes it return at the next check of
\* the poll loop, whatever the workers do; so with the flag set identify
\* always returns, also when a worker never ends.
C9_CheckStep ==
    (pc = "abort_check" /\ pc' # pc /\ abort) => (pc' = "returned" /\ w' = <<>>)

C9_PollStep ==
    /\ (pc = "while" /\ pc' # pc /\ abort) => pc' = "returned"
    /\ (pc = "join" /\ pc' # pc /\ abort) => pc' \in {"returned", "while"}

C10_Step ==
    \A i \in 1..Len(w) :
       (abort /\ i <= Len(w') /\ w[i].pc \in {"fetch", "desc1", "desc2", "probe"}
              /\ w'[i] # w[i])
          => (w'[i].pc = "done" /\ w'[i].exit # "pushed")

C10_WorkersCheckAbort == [][C10_Step]_vars

\* C10 as amended: the workers never look at the abort flag.  A started
\* worker can always take its next step, flag or no flag, and a worker ends
\* without a record only for what its own page held (a failed response, or
\* title, authors or identifier missing).
C10_WorkersIgnoreAbort ==
    \A i \in 1..Len(w) :
       /\ Alive(w[i]) => ENABLED WorkerStep(i)
       /\ (w[i].pc = "done" /\ w[i].exit # "pushed") =>
             (w[i].resp \in FailedResponses \/ w[i].exit = "missing")

C10_Witness ==
    /\ abort /\ pc = "returned"
    /\ \E i \in 1..Len(w) : w[i].pc = "put"

ParserDone ==
    fn.name \in {"_parse_search_isbn_results", "_parse_search_results"}
    /\ ret.state = "returned"

SameLetter(c, d) == c = d \/ {c, d} \in {{"t", "T"}, {"x", "X"}, {"a", "A"}}

\* the token occurs somewhere in the text, letter case ignored
OccursIn(token, text) ==
    \E i \in 0..(Len(text) - Len(token)) :
       \A j \in 1..Len(token) : SameLetter(text[i + j], token[j])

TitleHalf(b) ==
    fn.orig_title = None \/ OccursIn(<<fn.orig_title>>, StripSeries(b.title))

AuthorHalf(b) ==
    fn.orig_authors = <<>> \/ OccursIn(<<fn.orig_authors[1]>>, join(b.authors))

\* a block that qualifies: it has a title link with text and, in the
\* title/author variant, passes both halves of the match
Qualifies(b) ==
    /\ b.title # <<>> /\ b.href # NoUrl
    /\ IF fn.name = "_parse_search_isbn_results"
       THEN b.href.kind = "ISBN"
       ELSE TitleHalf(b) /\ AuthorHalf(b)

QualifyingBlocks == {i \in 1..Len(fn.root) : Qualifies(fn.root[i])}

\* the j-th qualifying block in document order
NthQualifying(j) ==
    CHOOSE i \in QualifyingBlocks : Cardinality({q \in QualifyingBlocks : q < i}) = j - 1

Min(a, b) == IF a < b THEN a ELSE b

\* C11: given a page with k qualifying blocks and the configured max_results,
\* each parser variant returns exactly min(k, max_results) URLs: those of the
\* first qualifying blocks in document order.  Qualifying blocks with the same
\* title each yield their own candidate.
C11_CappedInDocumentOrder ==
    ParserDone =>
        /\ Len(ret.val) = Min(Cardinality(QualifyingBlocks), fn.max_results)
        /\ \A j \in 1..Len(ret.val) : ret.val[j] = fn.root[NthQualifying(j)].href

C11_Witness ==
    /\ ParserDone
    /\ Len(fn.root) = 2 /\ fn.max_results = 2
    /\ fn.root[1].title = fn.root[2].title /\ fn.root[1].href # fn.root[2].href
    /\ ret.val = <<fn.root[1].href, fn.root[2].href>>

\* C12: in the title/author variant no URL among the candidates comes from
\* blocks that all carry a format label of the deny-list.
C12_DeniedFormatsRejected ==
    (ParserDone /\ fn.name = "_parse_search_results") =>
        \A j \in 1..Len(ret.val) :
           \E i \in 1..Len(fn.root) :
              fn.root[i].href = ret.val[j] /\ fn.root[i].format \notin UNSUPPORTED_FORMATS

\* C13: in the title/author variant the match test accepts a block exactly
\* when (there is no title token or a title token occurs in the block's
\* title, case ignored) and (there is no author token or an author token
\* occurs in the joined author text, case ignored).  Every candidate comes
\* from a block that passes both halves, and when the page has no more
\* blocks than max_results every titled block that passes both is a candidate.
C13_AcceptedIffBothHalves ==
    (ParserDone /\ fn.name = "_parse_search_results") =>
        /\ \A i \in 1..Len(fn.root) :
              ismatch(get_title_tokens(fn.orig_title), get_author_tokens(fn.orig_authors),
                      StripSeries(fn.root[i].title), fn.root[i].authors)
              <=> (TitleHalf(fn.root[i]) /\ AuthorHalf(fn.root[i]))
        /\ \A j \in 1..Len(ret.val) :
              \E i \in 1..Len(fn.root) :
                 /\ fn.root[i].href = ret.val[j]
                 /\ TitleHalf(fn.root[i]) /\ AuthorHalf(fn.root[i])
        /\ Len(fn.root) <= fn.max_results =>
              \A i \in 1..Len(fn.root) :
                 (fn.root[i].title # <<>> /\ TitleHalf(fn.root[i]) /\ AuthorHalf(fn.root[i]))
                    => \E j \in 1..Len(ret.val) : ret.val[j] = fn.root[i].href

C13_Witness ==
    /\ ParserDone /\ fn.name = "_parse_search_results"
    /\ fn.orig_title = "T" /\ fn.orig_authors = <<"a">>
    /\ Len(fn.root) = 2 /\ fn.max_results = 2
    /\ fn.root[1].title = <<"x", "t">> /\ fn.root[1].authors = <<"z">>
    /\ fn.root[2].title = <<"x", "t">> /\ fn.root[2].authors = <<"z", "A">>
    /\ fn.root[1].href # fn.root[2].href
    /\ ret.val = <<fn.root[2].href>>

RECURSIVE NamesOf(_)
NamesOf(nodes) ==
    IF Len(nodes) = 0 THEN <<>>
    ELSE (IF nodes[1].text # "" THEN <<nodes[1].text>> ELSE <<>>) \o NamesOf(Tail(nodes))

\* the nodes up to the first one that has a role annotation behind it, once
\* a name was accepted
UpToRole(nodes) ==
    LET stops == {i \in 1..Len(nodes) :
                     /\ nodes[i].tail = "(r)"
                     /\ \E j \in 1..i : nodes[j].text # ""}
    IN IF stops = {} THEN nodes
       ELSE SubSeq(nodes, 1, CHOOSE i \in stops : \A j \in stops : i <= j)

\* C14: on a region of well-formed author links, with get_all_authors set
\* parse_authors returns every name in document order; with it unset it
\* returns the names up to the first role annotation that follows an accepted
\* name, and none after it.
C14_HonoursGetAllAuthors ==
    ( /\ fn.name = "parse_authors" /\ ret.state # "pending"
      /\ Len(fn.author_nodes) > 0
      /\ \A i \in 1..Len(fn.author_nodes) : fn.author_nodes[i].tail # None )
    => /\ ret.state = "returned"
       /\ ret.val = IF fn.get_all_authors THEN NamesOf(fn.author_nodes)
                    ELSE NamesOf(UpToRole(fn.author_nodes))

\* C15: whatever the configuration and the category list of the page, the
\* list parse_tags returns holds no string twice.
C15_TagsHaveNoDuplicates ==
    (fn.name = "parse_tags" /\ ret.state = "returned") =>
        \A i \in 1..Len(ret.val) : \A j \in 1..Len(ret.val) :
           i # j => ret.val[i] # ret.val[j]

\* C16: a worker whose page has an og:image url holding "noimg" or
\* "img_no.jpg" ends parse_cover with no cover url: it never sends the probe
\* request, the step that reads the meta writes nothing to the cover cache,
\* and its record says it has no cover.
C16_State ==
    \A i \in 1..Len(w) :
       w[i].og_image \in {"noimg", "img_no.jpg"} =>
          /\ w[i].cover_url = None
          /\ w[i].pc \in {"put", "done"}
          /\ w[i].out["cover"] = "absent"
          /\ \A j \in RecordsOf(i) : ~result_queue[j].has_cover

C16_Step ==
    \A i \in 1..Len(w) :
       (i <= Len(w') /\ w[i].og_image = "unread"
           /\ w'[i].og_image \in {"noimg", "img_no.jpg"})
          => (cover_cache' = cover_cache /\ w'[i].pc = "put")

C16_NoImageNoProbe == [](C16_State) /\ [][C16_Step]_vars

C16_Witness ==
    \E i \in 1..Len(w) :
       /\ w[i].og_image = "img_no.jpg" /\ w[i].exit = "pushed"
       /\ \E j \in RecordsOf(i) : ~result_queue[j].has_cover
       /\ cover_cache = {}

\* the records of the sorted list that have a cover url in the cache
CachedRecords(sorted) ==
    {i \in 1..Len(sorted) : \E p \in cover_cache : p[1] = sorted[i].aladin_id}

\* C17: download_cover looks at the caches first and calls identify only when
\* they hold no cover url for the identifiers; the call is a full identify
\* with the same arguments on a queue of its own.  Unless aborted, it then
\* drains that queue, sorts the records by relevance and takes the cover url
\* cached for the first record that has one.  The channel of the host gets at
\* most one item, the pair of the source and the bytes of that url, and none
\* when no url was found or the download failed.
C17_State ==
    /\ Len(cover_queue) <= downloads /\ downloads <= 1
    /\ \A j \in 1..Len(cover_queue) :
          cover_queue[j] = [source |-> "Aladin.co.kr", cdata |-> cached_url]
    /\ (dc_pc # "none" /\ calls = <<>>) => (cached_url # None /\ searches = 0 /\ w = <<>>)
    /\ dc_pc = "download" => cached_url # None
    /\ (dc_pc = "done" /\ cached_url = None) => (downloads = 0 /\ cover_queue = <<>>)

C17_EntryStep ==
    (dc_pc = "none" /\ dc_pc' # "none") =>
        IF get_cached_cover_url(dc_args'.identifiers) # None
        THEN /\ cached_url' = get_cached_cover_url(dc_args'.identifiers)
             /\ calls' = <<>> /\ pc' = "idle" /\ dc_pc' = "abort_check"
        ELSE /\ calls' = <<[title |-> dc_args'.title, authors |-> dc_args'.authors,
                            identifiers |-> dc_args'.identifiers]>>
             /\ pc' = "select" /\ dc_pc' = "identify"
             /\ result_queue' = <<>> /\ cover_queue' = <<>>

C17_PickStep ==
    (dc_pc = "identify" /\ dc_pc' # "identify") =>
        IF abort
        THEN dc_pc' = "done" /\ cached_url' = None /\ cover_queue' = cover_queue
        ELSE /\ Len(results') = Len(result_queue)
             /\ \A j \in 1..Len(result_queue) :
                   \E i \in 1..Len(results') : results'[i] = result_queue[j]
             /\ \A i \in 1..Len(results') : \A j \in 1..Len(results') :
                   i < j => results'[i].source_relevance <= results'[j].source_relevance
             /\ IF CachedRecords(results') = {}
                THEN cached_url' = None /\ dc_pc' = "done"
                ELSE LET first == CHOOSE i \in CachedRecords(results') :
                                     \A j \in CachedRecords(results') : i <= j
                     IN /\ <<results'[first].aladin_id, cached_url'>> \in cover_cache
                        /\ dc_pc' = "abort_check"

C17_CoverFromCacheOrIdentify ==
    [](C17_State) /\ [][C17_EntryStep]_vars /\ [][C17_PickStep]_vars

C17_Witness ==
    /\ dc_pc = "done" /\ Len(cover_queue) = 1
    /\ Len(results) = 2
    /\ ~results[1].has_cover /\ results[2].has_cover
    /\ results[1].aladin_id # results[2].aladin_id
    /\ cover_cache = {<<results[2].aladin_id, cached_url>>}

\* C18 as stated: once download_cover was entered with the flag set, or has
\* returned at one of its abort checks, no request is sent any more: no
\* search, no detail page, no cover download, and the channel stays empty.
C18_AbortStopsAllRequests ==
    /\ (dc_pc # "none" /\ dc_args.abort) =>
          (searches = 0 /\ downloads = 0 /\ w = <<>> /\ cover_queue = <<>>)
    /\ (dc_pc = "done" /\ abort /\ downloads = 0) =>
          (cover_queue = <<>>
           /\ \A i \in 1..Len(w) : w[i].pc \notin {"fetch", "desc1", "desc2", "probe"})

\* C18 as amended: a flag found set at either abort check of download_cover
\* makes it return with no cover download and nothing on the channel.  When
\* the flag is set at the call, no worker is created, no cover is downloaded
\* and the channel stays empty, but identify still sends its one search
\* request when it has neither a valid ISBN nor a site identifier.
C18_State ==
    /\ (dc_pc # "none" /\ dc_args.abort) =>
          /\ downloads = 0 /\ cover_queue = <<>> /\ w = <<>>
          /\ searches <= 1 /\ Len(calls) <= 1
          /\ searches = 1 =>
                /\ Get(dc_args.identifiers, "isbn") # ValidIsbn
                /\ Get(dc_args.identifiers, "aladin.co.kr") = None
    /\ (dc_pc = "done" /\ abort /\ downloads = 0) => cover_queue = <<>>

C18_CheckStep ==
    (abort /\ dc_pc' # dc_pc /\ (dc_pc = "abort_check" \/ (dc_pc = "identify" /\ pc = "returned")))
        => (dc_pc' = "done" /\ downloads' = downloads /\ cover_queue' = cover_queue
            /\ searches' = searches /\ w' = w)

C18_AbortChecksShortCircuit == [](C18_State) /\ [][C18_CheckStep]_vars

C18_Witness ==
    /\ dc_pc = "done" /\ dc_args.abort
    /\ searches = 1 /\ w = <<>> /\ cover_queue = <<>>

\* a call that supplies no valid ISBN, no site identifier, no title and no
\* authors
NothingSupplied(c) ==
    /\ Get(c.identifiers, "isbn") # ValidIsbn
    /\ "aladin.co.kr" \notin DOMAIN c.identifiers
    /\ c.title = None
    /\ c.authors = <<>>

\* C19: a call that supplies neither a valid ISBN, a site identifier, a title
\* nor authors gets no query: identify returns from the branch that reports
\* the error, with no search request, no worker, nothing on the queue and no
\* retry, and it returns normally.
C19_State ==
    (pc \notin {"idle", "select"} /\ NothingSupplied(calls[1])) =>
        /\ pc = "returned" /\ retval = "None"
        /\ query.kind = "None"
        /\ searches = 0 /\ matches = <<>>
        /\ w = <<>> /\ result_queue = <<>>
        /\ Len(calls) = 1

C19_Step ==
    (pc = "select" /\ pc' # pc /\ NothingSupplied(CurrentCall)) =>
        (pc' = "returned" /\ query'.kind = "None" /\ calls' = calls)

C19_NoQueryEndsIdentify == [](C19_State) /\ [][C19_Step]_vars

C19_Witness ==
    /\ pc = "returned" /\ query.kind = "None"
    /\ Len(calls) = 1 /\ NothingSupplied(calls[1])
    /\ Get(calls[1].identifiers, "isbn") = BadIsbn
    /\ searches = 0 /\ w = <<>>

\* C20: the worker created for the candidate at position i of the candidate
\* list has rank i - 1, the record it pushes carries that rank, and no two
\* records of one call carry the same rank, in whatever order they are pushed.
C20_State ==
    /\ w # <<>> =>
          /\ Len(w) = Len(matches)
          /\ \A i \in 1..Len(w) : w[i].url = matches[i] /\ w[i].relevance = i - 1
    /\ \A j1 \in 1..Len(result_queue) : \A j2 \in 1..Len(result_queue) :
          j1 # j2 => result_queue[j1].source_relevance # result_queue[j2].source_relevance

C20_Step ==
    (Len(result_queue') > Len(result_queue)) =>
        /\ Len(result_queue') = Len(result_queue) + 1
        /\ \E i \in 1..Len(w) :
              /\ w[i].pc = "put" /\ w'[i].pc = "done"
              /\ \A o \in 1..Len(w) : o # i => w'[o] = w[o]
              /\ w[i].url = matches[i]
              /\ result_queue'[Len(result_queue')].source_relevance = i - 1

C20_RelevanceIsCandidateRank == [](C20_State) /\ [][C20_Step]_vars

C20_Witness ==
    /\ Len(matches) = 2 /\ Len(w) = 2
    /\ w[1].exit = "pushed" /\ w[2].exit = "pushed"
    /\ Len(result_queue) = 2
    /\ result_queue[1].source_relevance = 1 /\ result_queue[2].source_relevance = 0
    /\ pc = "returned"

\* the title text with a trailing parenthetical dropped
WithoutParenthetical(title) ==
    IF Len(title) > 0 /\ title[Len(title)] = ")" /\ \E i \in 1..Len(title) : title[i] = "("
    THEN LET open == CHOOSE i \in 1..Len(title) :
                        title[i] = "(" /\ \A j \in (i + 1)..Len(title) : title[j] # "("
         IN strip(SubSeq(title, 1, open - 1))
    ELSE strip(title)

\* C21: for a heading with a series link, the returned title is the title
\* text without the series annotation and without its trailing parenthetical,
\* the series name is the series text without its trailing integer and the
\* series index is that integer as a float, 0.0 when the series text does not
\* end in an integer; for a heading without a series link the series name and
\* the series index are both absent.
C21_TitleAndSeries ==
    (fn.name = "parse_title_series" /\ ret.state = "returned" /\ fn.heading.found) =>
        LET h == fn.heading
            info == strip(h.series)
            m == SeriesIndexMatch(info)
        IN IF h.has_series /\ info # <<>>
           THEN /\ ret.val.title = Value(WithoutParenthetical(h.title))
                /\ ret.val.series = Value(SubSeq(info, 1, Len(info) - m[1] - m[2]))
                /\ ret.val.series_index
                      = Value(Float(Number(SubSeq(info, Len(info) - m[1] + 1, Len(info)))))
           ELSE ~h.has_series => (~ret.val.series.present /\ ~ret.val.series_index.present)

\* the numeric text nodes of the rating control
NumericNodes(nodes) == {i \in 1..Len(nodes) : Numeric(strip(nodes[i]))}

\* C22: when the rating control has a numeric text node, parse_rating returns
\* half the value of the first one, whatever non-numeric nodes come before
\* it, and the record holds that rating; the text '0' gives the rating 0.0,
\* present on the record.
C22_FirstNumericNodeHalved ==
    (fn.name = "parse_rating" /\ ret # Pending /\ NumericNodes(fn.rating_nodes) # {}) =>
        LET first == CHOOSE i \in NumericNodes(fn.rating_nodes) :
                        \A j \in NumericNodes(fn.rating_nodes) : i <= j
        IN /\ ret = Returned(Value(HalfOf(strip(fn.rating_nodes[first]))))
           /\ mi_rating(ret) = Value(HalfOf(strip(fn.rating_nodes[first])))
           /\ fn.rating_nodes[first] = <<"0">> => mi_rating(ret) = Value(Hundredths(0))

C23_State ==
    /\ query.kind # "isbn_search"
    /\ pc = "search" =>
          /\ query.kind = "word_search"
          /\ check_isbn(Get(CurrentCall.identifiers, "isbn")) = None
    /\ searches > 0 => \A n \in 1..Len(calls) : check_isbn(Get(calls[n].identifiers, "isbn")) = None

C23_Step ==
    (pc = "search" /\ pc' = "abort_check") =>
        \E root \in SearchPages, max_results \in 1..MaxDownloads :
            matches' = _parse_search_results(CurrentCall.title, CurrentCall.authors,
                                             root, matches, max_results)

CacheWriter(i) == w[i].pc = "put" \/ (w[i].pc = "done" /\ w[i].exit = "pushed")

\* C24: a worker writes the caches before it pushes.  Every record on the
\* queue that has an ISBN has its isbn-to-id entry, and every record that has
\* a cover has its id-to-cover entry; every cache entry was written by a
\* worker that has pushed or has nothing left to do but push; the step that
\* writes a cache pushes nothing and the push writes no cache.
C24_State ==
    /\ \A j \in 1..Len(result_queue) :
          LET mi == result_queue[j] IN
          /\ mi.isbn # None => \E p \in isbn_cache : p[1] = mi.isbn
          /\ mi.has_cover => <<mi.aladin_id, CoverUrl(mi.aladin_id)>> \in cover_cache
    /\ \A p \in isbn_cache :
          \E i \in 1..Len(w) : CacheWriter(i) /\ w[i].isbn = p[1] /\ w[i].aladin_id = p[2]
    /\ \A p \in cover_cache :
          \E i \in 1..Len(w) : CacheWriter(i) /\ w[i].aladin_id = p[1] /\ w[i].cover_url = p[2]

C24_Step ==
    /\ (isbn_cache' # isbn_cache \/ cover_cache' # cover_cache) =>
          /\ result_queue' = result_queue
          /\ \E i \in 1..Len(w) : w[i].pc \notin {"put", "done"} /\ w'[i].pc = "put"
    /\ Len(result_queue') > Len(result_queue) =>
          /\ isbn_cache' = isbn_cache /\ cover_cache' = cover_cache
          /\ LET mi == result_queue'[Len(result_queue')] IN
             /\ mi.isbn # None => \E p \in isbn_cache : p[1] = mi.isbn
             /\ mi.has_cover => \E p \in cover_cache : p[1] = mi.aladin_id

C24_CachesBeforePush == [](C24_State) /\ [][C24_Step]_vars

C24_Witness ==
    /\ Len(w) = 2 /\ Len(result_queue) = 1
    /\ w[1].pc = "put" /\ w[1].isbn # None /\ w[1].cover_url # None
    /\ <<w[1].isbn, w[1].aladin_id>> \in isbn_cache
    /\ <<w[1].aladin_id, w[1].cover_url>> \in cover_cache
    /\ result_queue[1].source_relevance = 1 /\ result_queue[1].isbn # None

\* C25: a worker has a cover url, and a cover-cache entry of its own, only
\* when its probe answered with a Content-Length above 1000; after a probe
\* that failed, had no length or a length of at most 1000 the worker has no
\* cover url, writes no cover entry, is not stopped, and the record it pushes
\* has no cover.
C25_CoverNeedsLiveProbe ==
    /\ \A i \in 1..Len(w) :
          /\ w[i].cover_url # None =>
                (w[i].info.opened /\ w[i].info.has_length /\ w[i].info.length > 1000)
          /\ (w[i].info # NoResponse /\ ~(w[i].info.opened /\ w[i].info.has_length
                                          /\ w[i].info.length > 1000)) =>
                /\ w[i].cover_url = None
                /\ w[i].pc \in {"put", "done"} /\ w[i].exit \in {"none", "pushed"}
                /\ w[i].pc = "done" =>
                      \E j \in RecordsOf(i) : ~result_queue[j].has_cover
    /\ \A p \in cover_cache :
          \E i \in 1..Len(w) : /\ w[i].aladin_id = p[1] /\ w[i].cover_url = p[2]
                               /\ w[i].info.length > 1000

C25_Witness ==
    /\ Len(w) = 2 /\ Len(result_queue) = 2
    /\ w[1].info = [opened |-> TRUE, has_length |-> TRUE, length |-> 1000]
    /\ w[2].info = [opened |-> TRUE, has_length |-> TRUE, length |-> 1001]
    /\ w[1].exit = "pushed" /\ w[2].exit = "pushed"
    /\ cover_cache = {<<w[2].aladin_id, w[2].cover_url>>}

\* the response gave a dedicated comments block
HasBlock(response) ==
    /\ response.kind = "doc" /\ response.doc.parsable
    /\ \/ response.doc.intro = "html"
       \/ response.doc.intro = "absent" /\ response.doc.publisher = "html"

\* C26: the description requests of a worker are 'Introduce', then
\* 'PublisherDesc' only when the first one came back empty or failed; there
\* are at most two, and none after a non-empty response; when no dedicated
\* comments block was obtained and the page has a meta description, the
\* comments are that description.
C26_State ==
    fn.name = "parse_comments" =>
        /\ Len(ret.log) <= 2
        /\ \A n \in 1..Len(ret.log) :
              /\ ret.log[n].name = (IF n = 1 THEN "Introduce" ELSE "PublisherDesc")
              /\ n < Len(ret.log) => ret.log[n].response.kind # "doc"
        /\ ret.state # "loop" =>
              /\ Len(ret.log) >= 1
              /\ Len(ret.log) = 1 => ret.log[1].response.kind = "doc"
        /\ (ret.state = "returned"
              /\ ~HasBlock(ret.log[Len(ret.log)].response)
              /\ fn.description # <<>>) =>
              SubSeq(ret.val, 1, 3) = <<"<div id=\"comments\">", fn.description[1], "</div>">>

C26_Step ==
    (fn.name = "parse_comments" /\ ret'.log # ret.log) =>
        /\ Len(ret'.log) = Len(ret.log) + 1
        /\ \A n \in 1..Len(ret.log) :
              ret'.log[n] = ret.log[n] /\ ret.log[n].response.kind \in {"empty"} \cup DescFailures

C26_DescriptionRequestsInOrder == [](C26_State) /\ [][C26_Step]_vars

C26_Witness ==
    /\ fn.name = "parse_comments" /\ ret.state = "returned"
    /\ Len(ret.log) = 2
    /\ ret.log[1].response.kind = "timeout"
    /\ ret.log[2].response.kind = "doc" /\ ~ret.log[2].response.doc.parsable
    /\ fn.description = <<"m">>
    /\ ret.val = <<"<div id=\"comments\">", "m", "</div>", "s">>

\* C27: identify always terminates.  Until it returns, its thread always has
\* a next step (it waits only in join(0.2) and sleep(0.1)); it calls itself
\* at most once; and when its thread and every started worker keep running,
\* a call of identify returns.
C27_State ==
    /\ Len(calls) <= 2
    /\ pc \notin {"idle", "returned"} => ENABLED LiveIdentify

C27_IdentifyTerminates == [](C27_State) /\ (pc = "select" ~> pc = "returned")

C27_Witness ==
    /\ pc = "returned" /\ ~abort
    /\ Len(calls) = 2 /\ Len(w) = 2
    /\ w[1].pc = "done" /\ w[2].pc = "done"

\* the category links that the genre mapping table maps to at least one tag
MappedLinks(genre_mappings, links) ==
    SelectSeq(links, LAMBDA link :
        _convert_genres_to_calibre_tags(genre_mappings, << <<link>> >>) # <<>>)

\* C28: with the categories not used as tags and the conversion on, a
\* category link without tags in the genre mapping table adds nothing and
\* takes nothing away: parse_tags returns what it returns for the category
\* links that the table maps.
C28_UnmappedCategorySkipped ==
    (fn.name = "parse_tags" /\ ret # Pending /\ ~fn.get_category /\ fn.convert_tag) =>
        ret = TagLoop(MappedLinks(fn.genre_mappings, Links(fn.genres_node)), 1, <<>>,
                      TRUE, fn.genre_mappings)

\* the values identify returns for a failed search
ErrorValues == {"error", "msg"}

\* C29: when the search request or the parsing of its page fails, identify
\* returns in that step, with the error message as its value: the call is not
\* retried, no worker exists and the queue is empty.
C29_State ==
    retval \in ErrorValues =>
        /\ pc = "returned"
        /\ w = <<>> /\ result_queue = <<>> /\ matches = <<>>
        /\ searches = Len(calls)

C29_Step ==
    /\ (retval' \in ErrorValues /\ retval \notin ErrorValues) =>
          (pc = "search" /\ pc' = "returned" /\ calls' = calls /\ searches' = searches + 1)
    /\ retval \in ErrorValues => (calls' = calls /\ searches' = searches /\ pc' = pc)

C29_SearchFailureReturns == [](C29_State) /\ [][C29_Step]_vars

C29_Witness ==
    /\ pc = "returned" /\ retval = "msg"
    /\ Len(calls) = 1 /\ searches = 1
    /\ calls[1].title = "T" /\ calls[1].authors = <<"a">>
    /\ Get(calls[1].identifiers, "isbn") = BadIsbn

====
